---- MODULE Spec2Model ----
(***************************************************************************)
(* A model of the action orchestration engine of opensvc (omg):            *)
(*   - the Selection Dispatcher   (core/object/selection.go)               *)
(*   - the Resource Action Orchestrator (core/object/base_start.go)        *)
(*   - the Status Bus             (statusbus, known by its tests)          *)
(*   - the Process Executor       (util/command)                           *)
(*   - Base.SetKeywords and two drivers (raw disk, forking app)            *)
(* Each component has its own specification (SpecSel, SpecStart, SpecBus,  *)
(* SpecBusConc, SpecCmd, SpecSet, SpecRaw, SpecApp) over the module's      *)
(* variables; the variables of the other components stay at their initial  *)
(* value.                                                                  *)
(***************************************************************************)
EXTENDS Integers, Sequences, FiniteSets, TLC

\* ------------------------------------------------------------------ bounds

\* The longest list of paths a selector resolves to.
MaxPaths == 3

\* The longest resource list of an object.
MaxRes == 2

\* The most rollback steps registered during one invocation.
MaxSteps == 2

\* The most lines a program writes on its standard output.
MaxLines == 2

\* The longest list of keyword operations given to SetKeywords.
MaxKws == 3

\* The longest device list of a raw disk resource.
MaxDevs == 2

\* ------------------------------------------------------------------ state

VARIABLES
    \* Selection Dispatcher (Selection.Action)
    selApi,      \* the API requester: "none" (unset), "fail" (Do() errs), "ok"
    selReply,    \* the list of paths the daemon would answer
    selPc,       \* position of Selection.Action: "expand","loop","collect","done"
    paths,       \* paths := t.Expand()
    selI,        \* index of the for loops
    started,     \* started counter
    q,           \* the buffered result channel
    results,     \* results slice
    task,        \* the per-path goroutines
    \* Resource Action Orchestrator (Base.Start)
    listResources, \* t.listResources(): the caller-supplied resource order
    lock,          \* holder of the object's action lock, or NIL
    inv,           \* the state of each Start invocation on the object
    \* Status Bus (statusbus.T)
    busStarted,    \* the lifecycle guard: Started or Stopped
    busData,       \* the mapping (object path, resource id) -> status
    busStopped,    \* Stop() was called on a started bus (history)
    busOut,        \* the last call and how it ended
    busPosted,     \* the status of the latest Post of each key (history)
    busRewritten,  \* the keys whose status a later Post changed (history)
    busMu,         \* holder of the bus lock, or NIL
    busCall,       \* the calls of the concurrent callers of the bus
    busEver,       \* the statuses ever posted to each key (history)
    \* Process Executor (command.T)
    opt,           \* the options of the command, as New() was given them
    prog,          \* what the program does once launched
    run,           \* position and outcome of Run(): Start() then Wait()
    proc,          \* cmd.Process: the subprocess
    gor,           \* the helper goroutines: "stdout", "stderr", "ctx"
    done,          \* t.done: the completion signal channel
    stdout,        \* t.stdout: the bytes buffered from the standard output
    stderr,        \* t.stderr: the bytes buffered from the standard error
    ctx,           \* t.ctx: the deadline context
    closed,        \* cmd.Wait() has closed the pipes
    \* Base.SetKeywords, and the raw disk and forking app drivers
    setkw,         \* a SetKeywords call and the configuration it works on
    rawdev,        \* a Start of a raw disk resource and its devices
    appfork        \* the Starts of a forking app resource and its application

selVars == <<selApi, selReply, selPc, paths, selI, started, q, results, task>>

startVars == <<listResources, lock, inv>>

\* The bus as sequential callers see it, and what concurrent callers add.
busSeq == <<busStarted, busData, busStopped, busOut, busPosted, busRewritten>>

busConc == <<busMu, busCall, busEver>>

busVars == <<busSeq, busConc>>

cmdVars == <<opt, prog, run, proc, gor, done, stdout, stderr, ctx, closed>>

drvVars == <<setkw, rawdev, appfork>>

vars == <<selVars, startVars, busVars, cmdVars, drvVars>>

\* What the actions of a component leave alone: the other components.
notSel == <<startVars, busVars, cmdVars, drvVars>>

notStart == <<selVars, busVars, cmdVars, drvVars>>

notBus == <<selVars, startVars, cmdVars, drvVars>>

notCmd == <<selVars, startVars, busVars, drvVars>>

notSet == <<selVars, startVars, busVars, cmdVars, rawdev, appfork>>

notRaw == <<selVars, startVars, busVars, cmdVars, setkw, appfork>>

notApp == <<selVars, startVars, busVars, cmdVars, setkw, rawdev>>

NIL == "nil"

Range(f) == {f[x] : x \in DOMAIN f}

\* ------------------------------------------------------ Selection Dispatcher

\* The object paths of the model. The kind of a path decides what
\* path.NewObject() returns: a service (has the action method), a config
\* object (exists, lacks the action method), or nil (unknown kind).
PathSet == {"svc1", "svc2", "cfg1", "unk1"}

\* The values a per-object action method returns in its ActionResult.
RetVals == {"ok", "err"}

\* path.NewObject(): nil when the kind of the path is not handled.
NewObject(path) == IF path = "unk1" THEN NIL ELSE path

\* reflect.ValueOf(obj).MethodByName(action): valid only if the object's
\* kind has the method.
MethodByName(obj) == obj \in {"svc1", "svc2"}

\* The result sent by the deferred recover() of a per-object goroutine.
PanicResult_nopayload(path) == [Path |-> path, Ret |-> NIL, Panic |-> NIL]

PanicResult_nopath(path) == [Path |-> NIL, Ret |-> NIL, Panic |-> "panic"]

PanicResult(path) == [Path |-> path, Ret |-> NIL, Panic |-> "panic"]

\* The ActionResult a method returns normally.
MethodResult(path, v) == [Path |-> path, Ret |-> v, Panic |-> NIL]

NoTask == [st |-> "none", out |-> "none", res |-> NIL]

\* Sequences over S of length at most n.
SeqUpTo(S, n) == UNION {[1..k -> S] : k \in 0..n}

\* daemonExpand(): no requester: empty list, nil; Do() error: nil, err.
daemonExpand_ignore(api, reply) ==
    IF api = "none" THEN [l |-> <<>>, err |-> FALSE]
    ELSE [l |-> reply, err |-> FALSE]

daemonExpand(api, reply) ==
    IF api = "none" THEN [l |-> <<>>, err |-> FALSE]
    ELSE IF api = "fail" THEN [l |-> <<>>, err |-> TRUE]
    ELSE [l |-> reply, err |-> FALSE]

\* Expand(): a resolution error reads as the empty selection.
Expand(api, reply) ==
    LET r == daemonExpand(api, reply)
    IN  IF r.err THEN <<>> ELSE r.l

InitSelIdle ==
    /\ selApi = "none"
    /\ selReply = <<>>
    /\ selPc = "expand"
    /\ paths = <<>>
    /\ selI = 1
    /\ started = 0
    /\ q = <<>>
    /\ results = <<>>
    /\ task = [i \in 1..MaxPaths |-> NoTask]

InitSel ==
    /\ selApi \in {"none", "fail", "ok"}
    /\ selReply \in SeqUpTo(PathSet, MaxPaths)
    /\ selPc = "expand"
    /\ paths = <<>>
    /\ selI = 1
    /\ started = 0
    /\ q = <<>>
    /\ results = <<>>
    /\ task = [i \in 1..MaxPaths |-> NoTask]

\* paths := t.Expand(); q := make(chan ActionResult, len(paths))
ActionExpand ==
    /\ selPc = "expand"
    /\ paths' = Expand(selApi, selReply)
    /\ selPc' = "loop"
    /\ selI' = 1
    /\ UNCHANGED <<notSel, selApi, selReply, started, q, results, task>>

\* One iteration of `for _, path := range paths`: skip a nil object, else
\* spawn the goroutine and count it.
ActionDispatch_stop ==
    /\ selPc = "loop"
    /\ selI <= Len(paths)
    /\ IF \/ NewObject(paths[selI]) = NIL
          \/ \E j \in 1..Len(paths) : task[j].out \in {"panic", "err"}
       THEN UNCHANGED <<task, started>>
       ELSE /\ task' = [task EXCEPT ![selI] =
                          [st |-> "call", out |-> "none", res |-> NIL]]
            /\ started' = started + 1
    /\ selI' = selI + 1
    /\ UNCHANGED <<notSel, selApi, selReply, selPc, paths, q, results>>

ActionDispatch ==
    /\ selPc = "loop"
    /\ selI <= Len(paths)
    /\ IF NewObject(paths[selI]) = NIL
       THEN UNCHANGED <<task, started>>
       ELSE /\ task' = [task EXCEPT ![selI] =
                          [st |-> "call", out |-> "none", res |-> NIL]]
            /\ started' = started + 1
    /\ selI' = selI + 1
    /\ UNCHANGED <<notSel, selApi, selReply, selPc, paths, q, results>>

\* The dispatch loop is over: start collecting.
ActionDispatchEnd ==
    /\ selPc = "loop"
    /\ selI > Len(paths)
    /\ selPc' = "collect"
    /\ selI' = 0
    /\ UNCHANGED <<notSel, selApi, selReply, paths, started, q, results, task>>

\* fn.Call(fa) returns an ActionResult carrying v.
TaskReturn(i, v) ==
    /\ task[i].st = "call"
    /\ MethodByName(NewObject(paths[i]))
    /\ task' = [task EXCEPT ![i] =
                  [st |-> "send", out |-> v, res |-> MethodResult(paths[i], v)]]
    /\ UNCHANGED <<notSel, selApi, selReply, selPc, paths, selI, started, q, results>>

\* fn.Call(fa) panics: the method crashes, or fn is the zero Value because
\* the object has no such method. The deferred recover() builds the result.
TaskPanic(i) ==
    /\ task[i].st = "call"
    /\ task' = [task EXCEPT ![i] =
                  [st |-> "send", out |-> "panic", res |-> PanicResult(paths[i])]]
    /\ UNCHANGED <<notSel, selApi, selReply, selPc, paths, selI, started, q, results>>

\* fn.Call(fa) ends the goroutine with recover() returning nil: the method
\* panicked with a nil value, or called runtime.Goexit(). The deferred
\* function sends nothing.
TaskPanicNil(i) ==
    /\ task[i].st = "call"
    /\ MethodByName(NewObject(paths[i]))
    /\ task' = [task EXCEPT ![i] =
                  [st |-> "exit", out |-> "nilpanic", res |-> NIL]]
    /\ UNCHANGED <<notSel, selApi, selReply, selPc, paths, selI, started, q, results>>

\* q <- result: blocks while the channel buffer is full.
TaskSend(i) ==
    /\ task[i].st = "send"
    /\ Len(q) < Len(paths)
    /\ q' = Append(q, task[i].res)
    /\ task' = [task EXCEPT ![i].st = "exit"]
    /\ UNCHANGED <<notSel, selApi, selReply, selPc, paths, selI, started, results>>

\* r := <-q; results = append(results, r)
ActionCollect ==
    /\ selPc = "collect"
    /\ selI < started
    /\ q # <<>>
    /\ results' = Append(results, Head(q))
    /\ q' = Tail(q)
    /\ selI' = selI + 1
    /\ UNCHANGED <<notSel, selApi, selReply, selPc, paths, started, task>>

\* return results
ActionReturn ==
    /\ selPc = "collect"
    /\ selI >= started
    /\ selPc' = "done"
    /\ UNCHANGED <<notSel, selApi, selReply, paths, selI, started, q, results, task>>

NextSel ==
    \/ ActionExpand
    \/ ActionDispatch
    \/ ActionDispatchEnd
    \/ \E i \in 1..MaxPaths, v \in RetVals : TaskReturn(i, v)
    \/ \E i \in 1..MaxPaths : TaskPanic(i)
    \/ \E i \in 1..MaxPaths : TaskPanicNil(i)
    \/ \E i \in 1..MaxPaths : TaskSend(i)
    \/ ActionCollect
    \/ ActionReturn

\* ------------------------------------------------- Resource Action Orchestrator

\* The resource ids of the model. Whether a driver implements the Abort
\* capability (resource.Aborter) is a property of its kind.
RIDS == {"disk#0", "ip#1", "app#2"}

Aborter(r) == r \in {"ip#1", "app#2"}

\* The concurrent Start invocations on the object.
Invocations == {"a", "b"}

\* Errors, as tuples so that the error of a resource names the resource.
ErrNone == <<"none">>

ErrNil == <<"nil">>

ErrLocked == <<"locked">>

ErrAbort == <<"abort start">>

StartError(r) == <<"start failed", r>>

\* Lists without repetition over S of length 1..n.
Orderings(S, n) ==
    {l \in SeqUpTo(S, n) : /\ Len(l) >= 1
                           /\ \A i, j \in 1..Len(l) : i # j => l[i] # l[j]}

\* The state of an invocation before Start is called.
IdleInv ==
    [pc      |-> "idle",      \* position in Start
     i       |-> 0,           \* loop index of the current phase
     wg      |-> 0,           \* sync.WaitGroup counter of abortStart
     q       |-> <<>>,        \* the vote channel of abortStart
     ret     |-> FALSE,       \* ret of abortStart
     worker  |-> [k \in 1..MaxRes |-> "none"],  \* the abortWorker goroutines
     vetoed  |-> {},          \* resources whose Abort() reported true
     log     |-> <<>>,        \* resources whose Start() was invoked, in order
     failed  |-> NIL,         \* the resource whose Start() returned an error
     slave   |-> FALSE,       \* slaveStart was called
     stack   |-> <<>>,        \* rollback steps registered, in order
     rolled  |-> <<>>,        \* rollback steps invoked, in order
     rbfail  |-> FALSE,       \* a rollback step failed (and was logged)
     timeout |-> FALSE,       \* the lock was not acquired in time
     err     |-> ErrNil,      \* the error returned by the locked function
     result  |-> ErrNone]     \* the error returned by Start

InitStartIdle ==
    /\ listResources = <<>>
    /\ lock = NIL
    /\ inv = [p \in Invocations |-> IdleInv]

InitStart ==
    /\ listResources \in Orderings(RIDS, MaxRes)
    /\ lock = NIL
    /\ inv = [p \in Invocations |-> IdleInv]

NRes == Len(listResources)

\* Start(): calls lockedAction with lockedStart as the function to run.
StartCall_direct(p) ==
    /\ inv[p].pc = "idle"
    /\ inv' = [inv EXCEPT ![p].pc = "abort", ![p].i = 1]
    /\ UNCHANGED <<notStart, listResources, lock>>

StartCall(p) ==
    /\ inv[p].pc = "idle"
    /\ inv' = [inv EXCEPT ![p].pc = "lock"]
    /\ UNCHANGED <<notStart, listResources, lock>>

\* Start() returns what lockedAction returns.
StartReturn_nil(e) == ErrNil

StartReturn(e) == e

\* lockedAction: the lock is free and is acquired; the function is run.
LockAcquire(p) ==
    /\ inv[p].pc = "lock"
    /\ lock = NIL
    /\ lock' = p
    /\ inv' = [inv EXCEPT ![p].pc = "abort", ![p].i = 1]
    /\ UNCHANGED <<notStart, listResources>>

\* lockedAction: the lock is held by another action until the timeout
\* expires: a "locked" error, the function is not run.
LockTimeout(p) ==
    /\ inv[p].pc = "lock"
    /\ lock # NIL
    /\ lock # p
    /\ inv' = [inv EXCEPT ![p].pc = "done", ![p].timeout = TRUE,
                          ![p].result = StartReturn(ErrLocked)]
    /\ UNCHANGED <<notStart, listResources, lock>>

\* abortStart: wg.Add(1); go t.abortWorker(r, q, &wg)
AbortSpawn(p) ==
    /\ inv[p].pc = "abort"
    /\ inv[p].i <= NRes
    /\ inv' = [inv EXCEPT ![p].wg = @ + 1, ![p].worker[inv[p].i] = "run",
                          ![p].i = @ + 1]
    /\ UNCHANGED <<notStart, listResources, lock>>

\* abortWorker: the vote of a resource: false without the Abort capability,
\* else what Abort() reports.
abortVote_veto(r, a) == IF ~Aborter(r) THEN TRUE ELSE a

abortVote(r, a) == IF ~Aborter(r) THEN FALSE ELSE a

\* abortWorker: q <- vote, then the deferred wg.Done(). a is what Abort()
\* reports, for a driver that has it.
AbortWorker(p, k, a) ==
    /\ k <= NRes
    /\ inv[p].worker[k] = "run"
    /\ Len(inv[p].q) < NRes
    /\ inv' = [inv EXCEPT ![p].q = Append(@, abortVote(listResources[k], a)),
                          ![p].wg = @ - 1,
                          ![p].worker[k] = "done",
                          ![p].vetoed = IF Aborter(listResources[k]) /\ a
                                        THEN @ \cup {listResources[k]} ELSE @]
    /\ UNCHANGED <<notStart, listResources, lock>>

\* abortStart: wg.Wait() returns once every worker is done.
AbortWait(p) ==
    /\ inv[p].pc = "abort"
    /\ inv[p].i > NRes
    /\ inv[p].wg = 0
    /\ inv' = [inv EXCEPT ![p].pc = "collect", ![p].i = 0]
    /\ UNCHANGED <<notStart, listResources, lock>>

\* abortStart: ret = ret || <-q
abortFold_last(ret, v) == v

abortFold(ret, v) == ret \/ v

AbortCollect(p) ==
    /\ inv[p].pc = "collect"
    /\ inv[p].i < NRes
    /\ inv[p].q # <<>>
    /\ inv' = [inv EXCEPT ![p].ret = abortFold(@, Head(inv[p].q)),
                          ![p].q = Tail(@),
                          ![p].i = @ + 1]
    /\ UNCHANGED <<notStart, listResources, lock>>

\* abortStart: the error returned once every vote is read.
abortStart(ret) == IF ret THEN ErrAbort ELSE ErrNil

\* lockedStart: an abortStart error is returned, else masterStart begins.
AbortDecide_early(p) ==
    /\ inv[p].pc = "collect"
    /\ inv[p].i >= 1
    /\ LET e == abortStart(inv[p].ret)
       IN  IF e # ErrNil
           THEN inv' = [inv EXCEPT ![p].err = e, ![p].pc = "return"]
           ELSE inv' = [inv EXCEPT ![p].pc = "master", ![p].i = 1]
    /\ UNCHANGED <<notStart, listResources, lock>>

AbortDecide(p) ==
    /\ inv[p].pc = "collect"
    /\ inv[p].i >= NRes
    /\ LET e == abortStart(inv[p].ret)
       IN  IF e # ErrNil
           THEN inv' = [inv EXCEPT ![p].err = e, ![p].pc = "return"]
           ELSE inv' = [inv EXCEPT ![p].pc = "master", ![p].i = 1]
    /\ UNCHANGED <<notStart, listResources, lock>>

\* The rollback steps a resource registers during its Start().
Steps(r, n) == [k \in 1..n |-> <<r, k>>]

\* masterStart: what the loop does with the error of r.Start(): return it,
\* or go on with the next resource.
masterStart_continue(e) == [stop |-> FALSE, err |-> ErrNil]

masterStart_swallow(e) == [stop |-> e # ErrNil, err |-> ErrNil]

masterStart_generic(e) ==
    [stop |-> e # ErrNil, err |-> IF e # ErrNil THEN <<"start failed">> ELSE e]

masterStart(e) == [stop |-> e # ErrNil, err |-> e]

\* masterStart: one iteration: r.Start() registers n rollback steps and
\* returns an error (fails) or nil.
MasterStart(p, n, fails) ==
    /\ inv[p].pc = "master"
    /\ inv[p].i <= NRes
    /\ Len(inv[p].stack) + n <= MaxSteps
    /\ LET r == listResources[inv[p].i]
           e == IF fails THEN StartError(r) ELSE ErrNil
           m == masterStart(e)
       IN  inv' = [inv EXCEPT
                     ![p].log = Append(@, r),
                     ![p].stack = @ \o Steps(r, n),
                     ![p].failed = IF fails THEN r ELSE @,
                     ![p].err = m.err,
                     ![p].pc = IF m.stop THEN "return" ELSE "master",
                     ![p].i = @ + 1]
    /\ UNCHANGED <<notStart, listResources, lock>>

\* masterStart returns nil after the last resource; lockedStart goes on
\* with slaveStart.
MasterReturn(p) ==
    /\ inv[p].pc = "master"
    /\ inv[p].i > NRes
    /\ inv' = [inv EXCEPT ![p].pc = "slave"]
    /\ UNCHANGED <<notStart, listResources, lock>>

\* slaveStart returns nil, and so does lockedStart.
SlaveStart(p) ==
    /\ inv[p].pc = "slave"
    /\ inv' = [inv EXCEPT ![p].err = ErrNil, ![p].pc = "return",
                          ![p].slave = TRUE]
    /\ UNCHANGED <<notStart, listResources, lock>>

\* lockedAction: the function has returned: unwind the rollback stack if it
\* failed, else go and release the lock.
FuncReturn(p) ==
    /\ inv[p].pc = "return"
    /\ inv' = [inv EXCEPT ![p].pc = IF inv[p].err # ErrNil
                                   THEN "rollback" ELSE "unlock"]
    /\ UNCHANGED <<notStart, listResources, lock>>

\* Rollback: the next step to unwind is the last registered step that was
\* not yet invoked.
RollbackNext_fifo(stack, rolled) == stack[Len(rolled) + 1]

RollbackNext(stack, rolled) == stack[Len(stack) - Len(rolled)]

\* Rollback on failure: invoke the next step; its own failure is logged.
Rollback(p, ok) ==
    /\ inv[p].pc = "rollback"
    /\ Len(inv[p].rolled) < Len(inv[p].stack)
    /\ LET s == RollbackNext(inv[p].stack, inv[p].rolled)
       IN  inv' = [inv EXCEPT ![p].rolled = Append(@, s),
                              ![p].rbfail = (@ \/ ~ok)]
    /\ UNCHANGED <<notStart, listResources, lock>>

\* The stack is unwound: release the lock.
RollbackEnd(p) ==
    /\ inv[p].pc = "rollback"
    /\ Len(inv[p].rolled) >= Len(inv[p].stack)
    /\ inv' = [inv EXCEPT ![p].pc = "unlock"]
    /\ UNCHANGED <<notStart, listResources, lock>>

\* lockedAction: release the lock and return the function's error.
Unlock(p) ==
    /\ inv[p].pc = "unlock"
    /\ lock' = IF lock = p THEN NIL ELSE lock
    /\ inv' = [inv EXCEPT ![p].pc = "done",
                          ![p].result = StartReturn(inv[p].err)]
    /\ UNCHANGED <<notStart, listResources>>

NextStart ==
    \/ \E p \in Invocations : StartCall(p)
    \/ \E p \in Invocations : LockAcquire(p)
    \/ \E p \in Invocations : LockTimeout(p)
    \/ \E p \in Invocations : AbortSpawn(p)
    \/ \E p \in Invocations, k \in 1..MaxRes, a \in BOOLEAN : AbortWorker(p, k, a)
    \/ \E p \in Invocations : AbortWait(p)
    \/ \E p \in Invocations : AbortCollect(p)
    \/ \E p \in Invocations : AbortDecide(p)
    \/ \E p \in Invocations, n \in 0..MaxSteps, f \in BOOLEAN : MasterStart(p, n, f)
    \/ \E p \in Invocations : MasterReturn(p)
    \/ \E p \in Invocations : SlaveStart(p)
    \/ \E p \in Invocations : FuncReturn(p)
    \/ \E p \in Invocations, ok \in BOOLEAN : Rollback(p, ok)
    \/ \E p \in Invocations : RollbackEnd(p)
    \/ \E p \in Invocations : Unlock(p)

\* ------------------------------------------------------------------ Status Bus

\* The keys of the model: the zero path and a service path, two resource ids.
BusPaths == {"", "root/svc/foo"}

BusRids == {"app#1", "app#2"}

\* status.T values that are posted; Undef is what an unknown key reads as.
Undef == "undef"

Statuses == {"up", "down", "warn"}

EmptyData == [k \in {} |-> Undef]

\* The goroutines that call a started bus at the same time, and what they
\* post and read.
BusCallers == {"w1", "w2"}

ConcRids == {"app#1", "app#2"}

ConcStatuses == {"up", "down"}

IdleCall == [pc |-> "idle", op |-> NIL, key |-> NIL, s |-> NIL, snap |-> NIL,
             val |-> NIL]

NoneEver == [k \in {"root/svc/foo"} \X ConcRids |-> {}]

InitBusIdle ==
    /\ busStarted = FALSE
    /\ busData = EmptyData
    /\ busStopped = FALSE
    /\ busOut = [op |-> "new", key |-> NIL, was |-> FALSE, after |-> FALSE,
                 panic |-> NIL, val |-> NIL]
    /\ busPosted = EmptyData
    /\ busRewritten = {}
    /\ busMu = NIL
    /\ busCall = [c \in BusCallers |-> IdleCall]
    /\ busEver = NoneEver

\* The bus after Start(), before the concurrent callers run.
InitBusStarted ==
    /\ busStarted = TRUE
    /\ busData = EmptyData
    /\ busStopped = FALSE
    /\ busOut = [op |-> "Start", key |-> NIL, was |-> FALSE, after |-> FALSE,
                 panic |-> NIL, val |-> NIL]
    /\ busPosted = EmptyData
    /\ busRewritten = {}
    /\ busMu = NIL
    /\ busCall = [c \in BusCallers |-> IdleCall]
    /\ busEver = NoneEver

\* The guard of Start(): panics with ErrorStarted on a started bus.
startGuard_none(isStarted) == NIL

startGuard(isStarted) == IF isStarted THEN "ErrorStarted" ELSE NIL

\* The guard of Get() and Post(): panics with ErrorNeedStart on a bus that
\* is not started.
needStart_quiet(isStarted) == NIL

needStart(isStarted) == IF isStarted THEN NIL ELSE "ErrorNeedStart"

\* Stop() has no guard: it is deferred on buses that were never started.
stopGuard_need(isStarted) == IF isStarted THEN NIL ELSE "ErrorNeedStart"

stopGuard(isStarted) == NIL

\* What a call leaves in busOut.
Out(op, key, panic, val) ==
    [op |-> op, key |-> key, was |-> busStarted, after |-> busStopped,
     panic |-> panic, val |-> val]

\* History: the status of the latest Post of each key since Start().
Record(h, k, s) == [x \in DOMAIN h \cup {k} |-> IF x = k THEN s ELSE h[x]]

\* History: the keys that a Post found with another status.
Rewritten(h, k, s) ==
    IF k \in DOMAIN h /\ h[k] # s THEN busRewritten \cup {k} ELSE busRewritten

\* Start(): refuses a second start, else allocates the cache.
BusStart ==
    /\ LET e == startGuard(busStarted)
       IN  /\ busOut' = Out("Start", NIL, e, NIL)
           /\ IF e # NIL
              THEN UNCHANGED <<busStarted, busData, busPosted, busRewritten>>
              ELSE /\ busStarted' = TRUE
                   /\ busData' = EmptyData
                   /\ busPosted' = EmptyData
                   /\ busRewritten' = {}
    /\ UNCHANGED <<notBus, busConc, busStopped>>

\* Stop(): releases the cache; a no-op on a bus that is not started.
BusStop ==
    /\ LET e == stopGuard(busStarted)
       IN  /\ busOut' = Out("Stop", NIL, e, NIL)
           /\ IF e # NIL
              THEN UNCHANGED <<busStarted, busData, busPosted, busRewritten,
                               busStopped>>
              ELSE /\ busStarted' = FALSE
                   /\ busData' = EmptyData
                   /\ busPosted' = EmptyData
                   /\ busRewritten' = {}
                   /\ busStopped' = (busStopped \/ busStarted)
    /\ UNCHANGED <<notBus, busConc>>

\* The mapping after an upsert of key k.
Upsert_keepfirst(data, k, s) ==
    [x \in DOMAIN data \cup {k} |-> IF x \in DOMAIN data THEN data[x] ELSE s]

Upsert_clobber(data, k, s) == [x \in {k} |-> s]

Upsert(data, k, s) ==
    [x \in DOMAIN data \cup {k} |-> IF x = k THEN s ELSE data[x]]

\* Post(path, rid, status, pending): upsert of the status of (path, rid).
BusPost(path, rid, s) ==
    /\ LET e == needStart(busStarted)
       IN  /\ busOut' = Out("Post", <<path, rid>>, e, NIL)
           /\ IF e # NIL
              THEN UNCHANGED <<busData, busPosted, busRewritten>>
              ELSE /\ busData' = Upsert(busData, <<path, rid>>, s)
                   /\ busPosted' = Record(busPosted, <<path, rid>>, s)
                   /\ busRewritten' = Rewritten(busPosted, <<path, rid>>, s)
    /\ UNCHANGED <<notBus, busConc, busStarted, busStopped>>

\* The status stored for key k, Undef when there is none.
Lookup_nodefault(data, k) == IF k \in DOMAIN data THEN data[k] ELSE NIL

Lookup(data, k) == IF k \in DOMAIN data THEN data[k] ELSE Undef

\* Get(path, rid)
BusGet(path, rid) ==
    /\ LET e == needStart(busStarted)
       IN  busOut' = Out("Get", <<path, rid>>, e,
                         IF e # NIL THEN NIL ELSE Lookup(busData, <<path, rid>>))
    /\ UNCHANGED <<notBus, busConc, busStarted, busData, busStopped, busPosted,
                   busRewritten>>

NextBus ==
    \/ BusStart
    \/ BusStop
    \/ \E path \in BusPaths, rid \in BusRids, s \in Statuses : BusPost(path, rid, s)
    \/ \E path \in BusPaths, rid \in BusRids : BusGet(path, rid)

\* ---- the bus under concurrent callers: each call takes the bus lock, works
\* on the mapping and releases the lock. The upsert of a Post is not atomic
\* by itself: it reads the mapping and writes it back.

\* A goroutine calls Post(path, rid, s) on the started bus.
CallPost(c, path, rid, s) ==
    /\ busCall[c].pc = "idle"
    /\ needStart(busStarted) = NIL
    /\ busCall' = [busCall EXCEPT ![c] =
           [IdleCall EXCEPT !.pc = "lock", !.op = "Post",
                            !.key = <<path, rid>>, !.s = s]]
    /\ busEver' = [busEver EXCEPT ![<<path, rid>>] = @ \cup {s}]
    /\ UNCHANGED <<notBus, busSeq, busMu>>

\* A goroutine calls Get(path, rid) on the started bus.
CallGet(c, path, rid) ==
    /\ busCall[c].pc = "idle"
    /\ needStart(busStarted) = NIL
    /\ busCall' = [busCall EXCEPT ![c] =
           [IdleCall EXCEPT !.pc = "lock", !.op = "Get", !.key = <<path, rid>>]]
    /\ UNCHANGED <<notBus, busSeq, busMu, busEver>>

\* Lock(): blocks while another goroutine holds the bus lock.
muFree_always(mu) == TRUE

muFree(mu) == mu = NIL

MuLock(c) ==
    /\ busCall[c].pc = "lock"
    /\ muFree(busMu)
    /\ busMu' = c
    /\ busCall' = [busCall EXCEPT ![c].pc =
                       IF busCall[c].op = "Post" THEN "load" ELSE "read"]
    /\ UNCHANGED <<notBus, busSeq, busEver>>

\* Post, first half of the upsert: read the mapping.
PostLoad(c) ==
    /\ busCall[c].pc = "load"
    /\ busCall' = [busCall EXCEPT ![c].pc = "store", ![c].snap = busData]
    /\ UNCHANGED <<notBus, busSeq, busMu, busEver>>

\* Post, second half of the upsert: write the mapping back.
PostStore(c) ==
    /\ busCall[c].pc = "store"
    /\ busData' = Upsert(busCall[c].snap, busCall[c].key, busCall[c].s)
    /\ busPosted' = Record(busPosted, busCall[c].key, busCall[c].s)
    /\ busCall' = [busCall EXCEPT ![c].pc = "unlock", ![c].snap = NIL]
    /\ UNCHANGED <<notBus, busStarted, busStopped, busOut, busRewritten, busMu,
                   busEver>>

\* Get: read the status of the key.
GetRead(c) ==
    /\ busCall[c].pc = "read"
    /\ busCall' = [busCall EXCEPT ![c].pc = "unlock",
                                  ![c].val = Lookup(busData, busCall[c].key)]
    /\ UNCHANGED <<notBus, busSeq, busMu, busEver>>

\* Unlock(), and the call returns.
MuUnlock(c) ==
    /\ busCall[c].pc = "unlock"
    /\ busMu' = NIL
    /\ busCall' = [busCall EXCEPT ![c].pc = "idle"]
    /\ UNCHANGED <<notBus, busSeq, busEver>>

NextBusConc ==
    \/ \E c \in BusCallers, rid \in ConcRids, s \in ConcStatuses :
           CallPost(c, "root/svc/foo", rid, s)
    \/ \E c \in BusCallers, rid \in ConcRids : CallGet(c, "root/svc/foo", rid)
    \/ \E c \in BusCallers : MuLock(c)
    \/ \E c \in BusCallers : PostLoad(c)
    \/ \E c \in BusCallers : PostStore(c)
    \/ \E c \in BusCallers : GetRead(c)
    \/ \E c \in BusCallers : MuUnlock(c)

\* --------------------------------------------------------- Process Executor

NL == "\n"

\* bufio.MaxScanTokenSize, the size of the buffer of a bufio.Scanner (64 KiB),
\* scaled down to the lines of the model.
MaxScanTokenSize == 2

\* The lines a program writes: the empty line, a one byte line, and a line
\* that fills the buffer of the scanner.
LineSet == {<<>>, <<"a">>, <<"a", "a">>}

\* s.Scan() fails with ErrTooLong when the buffer is full before the newline.
TooLong(line) == Len(line) >= MaxScanTokenSize

\* What a program does: whether cmd.Start() finds it, the lines it writes on
\* its standard output and standard error, and its exit code.
Programs ==
    [found : BOOLEAN,
     out : SeqUpTo(LineSet, MaxLines),
     err : SeqUpTo({<<"e">>}, 1),
     code : {0, 1}]

\* The fields of command.T that New() sets from its options.
\* user: "" (none requested), a user the system knows, one it does not.
\* log: a logger is set; stdoutLogLevel, stderrLogLevel: not Disabled;
\* onStdoutLine, onStderrLine: a line callback is set.
AllOptions ==
    [valid : BOOLEAN,
     user : {"", "known", "unknown"},
     log : BOOLEAN,
     stdoutLogLevel : BOOLEAN,
     onStdoutLine : BOOLEAN,
     bufferStdout : BOOLEAN,
     stderrLogLevel : BOOLEAN,
     onStderrLine : BOOLEAN,
     bufferStderr : BOOLEAN,
     timeout : BOOLEAN]

\* The commands of the model. Without a logger: stdout is ignored or
\* buffered, stderr is ignored, buffered or given to a callback. With a
\* logger: both streams are logged, given to a callback and buffered, or
\* none is read. A command that runs under a resolved user has no helper
\* goroutine.
Options ==
    {o \in AllOptions :
        /\ o.stdoutLogLevel = o.onStdoutLine
        /\ o.stderrLogLevel => (o.onStderrLine /\ o.bufferStderr)
        /\ ~o.log =>
               /\ ~(o.stdoutLogLevel \/ o.stderrLogLevel)
               /\ ~(o.onStderrLine /\ o.bufferStderr)
        /\ o.log =>
               /\ o.stdoutLogLevel = o.bufferStdout
               /\ o.stderrLogLevel = o.bufferStderr
               /\ o.stderrLogLevel = o.onStderrLine
               /\ o.stdoutLogLevel = o.stderrLogLevel
        /\ o.user = "known" =>
               ~(o.bufferStdout \/ o.bufferStderr \/ o.onStderrLine \/ o.timeout)}

NoGor == [st |-> "none", n |-> 0, seen |-> <<>>]

InitCmdRun ==
    /\ run = [pc |-> "new", start |-> "none", ret |-> "none", i |-> 0,
              waited |-> FALSE, reg |-> 0, again |-> "none"]
    /\ proc = [st |-> "none", out |-> 0, err |-> 0, end |-> NIL, n |-> 0,
               cred |-> NIL]
    /\ gor = [g \in {"stdout", "stderr", "ctx"} |-> NoGor]
    /\ done = <<>>
    /\ stdout = <<>>
    /\ stderr = <<>>
    /\ ctx = [cancelled |-> FALSE, expired |-> FALSE, hit |-> FALSE]
    /\ closed = FALSE

InitCmdIdle ==
    /\ opt = [valid |-> TRUE, user |-> "", log |-> FALSE,
              stdoutLogLevel |-> FALSE, onStdoutLine |-> FALSE,
              bufferStdout |-> FALSE, stderrLogLevel |-> FALSE,
              onStderrLine |-> FALSE, bufferStderr |-> FALSE,
              timeout |-> FALSE]
    /\ prog = [found |-> TRUE, out |-> <<>>, err |-> <<>>, code |-> 0]
    /\ InitCmdRun

InitCmd ==
    /\ opt \in Options
    /\ prog \in Programs
    /\ InitCmdRun

\* The commands that start, with every combination of captured streams and
\* deadline, running a program that exits with code 0.
InitCmdLive ==
    /\ opt \in {o \in Options : o.valid /\ o.user = "" /\ ~o.log}
    /\ prog \in {p \in Programs : p.found /\ p.code = 0 /\ <<>> \notin Range(p.out)}
    /\ InitCmdRun

\* t.valid(): the error of an invalid command description, and of an
\* instance that was started already.
valid_anytime(o, isStarted) == IF o.valid THEN NIL ELSE "ErrInvalid"

valid(o, isStarted) ==
    IF ~o.valid THEN "ErrInvalid"
    ELSE IF isStarted THEN "ErrStarted"
    ELSE NIL

\* credential(user, group): the credential to run under, nil when none is
\* requested, and the error of a failed resolution.
credential(user) ==
    IF user = "" THEN [cred |-> NIL, err |-> NIL]
    ELSE IF user = "known" THEN [cred |-> user, err |-> NIL]
    ELSE [cred |-> NIL, err |-> "ErrCredential"]

\* update(): returns the credential error, after logging it with t.log;
\* t.log.Error() on a nil logger is a nil pointer dereference.
update(o) ==
    IF credential(o.user).err # NIL
    THEN IF o.log THEN credential(o.user).err ELSE "panic"
    ELSE NIL

\* t.goroutine as Start() builds it.
goroutine(o) ==
    (IF o.stdoutLogLevel \/ o.bufferStdout \/ o.onStdoutLine
     THEN <<"stdout">> ELSE <<>>)
    \o (IF o.stderrLogLevel \/ o.bufferStderr \/ o.onStderrLine
        THEN <<"stderr">> ELSE <<>>)
    \o (IF o.timeout THEN <<"ctx">> ELSE <<>>)

\* How Start() ends: NIL, an error, or "panic".
Start(o, p, isStarted) ==
    IF valid(o, isStarted) # NIL THEN valid(o, isStarted)
    ELSE IF update(o) # NIL THEN update(o)
    ELSE IF ~p.found THEN "ErrNotFound"
    ELSE NIL

\* Run(): what follows Start() returning err.
afterStart_wait(err) == "wait"

afterStart(err) == IF err # NIL THEN "done" ELSE "wait"

\* Run() up to the return of Start(): on success the subprocess runs and
\* the helper goroutines are spawned.
RunStart ==
    /\ run.pc = "new"
    /\ LET e == Start(opt, prog, FALSE)
       IN  IF e = "panic"
           THEN /\ run' = [run EXCEPT !.pc = "panic"]
                /\ UNCHANGED <<proc, gor>>
           ELSE IF e # NIL
           THEN /\ run' = [run EXCEPT !.pc = afterStart(e), !.start = e,
                               !.ret = IF afterStart(e) = "done" THEN e ELSE @]
                /\ UNCHANGED <<proc, gor>>
           ELSE /\ run' = [run EXCEPT !.pc = afterStart(e), !.start = e,
                                      !.reg = Len(goroutine(opt))]
                /\ proc' = [proc EXCEPT !.st = "running", !.n = @ + 1,
                                        !.cred = credential(opt.user).cred]
                /\ gor' = [g \in DOMAIN gor |->
                              IF \E k \in 1..Len(goroutine(opt)) : goroutine(opt)[k] = g
                              THEN [NoGor EXCEPT !.st = "run"]
                              ELSE NoGor]
    /\ UNCHANGED <<notCmd, opt, prog, done, stdout, stderr, ctx, closed>>

\* A second Start() on an instance that has run: unless it is refused, the
\* code of Start() appends its goroutines to t.goroutine once more and
\* launches another process.
StartAgain ==
    /\ run.pc = "done"
    /\ run.start = NIL
    /\ run.again = "none"
    /\ LET e == Start(opt, prog, TRUE)
       IN  IF e # NIL
           THEN /\ run' = [run EXCEPT !.again = e]
                /\ UNCHANGED proc
           ELSE /\ run' = [run EXCEPT !.again = e,
                                      !.reg = @ + Len(goroutine(opt))]
                /\ proc' = [proc EXCEPT !.st = "running", !.n = @ + 1,
                                        !.out = 0, !.err = 0, !.end = NIL]
    /\ UNCHANGED <<notCmd, opt, prog, gor, done, stdout, stderr, ctx, closed>>

\* The program writes its next line on its standard output.
ProcWriteOut ==
    /\ proc.st = "running"
    /\ proc.out < Len(prog.out)
    /\ proc' = [proc EXCEPT !.out = @ + 1]
    /\ UNCHANGED <<notCmd, opt, prog, run, gor, done, stdout, stderr, ctx, closed>>

\* The program writes its next line on its standard error.
ProcWriteErr ==
    /\ proc.st = "running"
    /\ proc.err < Len(prog.err)
    /\ proc' = [proc EXCEPT !.err = @ + 1]
    /\ UNCHANGED <<notCmd, opt, prog, run, gor, done, stdout, stderr, ctx, closed>>

\* The program has written everything and exits with its exit code.
ProcExit ==
    /\ proc.st = "running"
    /\ proc.out = Len(prog.out)
    /\ proc.err = Len(prog.err)
    /\ proc' = [proc EXCEPT !.st = "zombie", !.end = "exit"]
    /\ UNCHANGED <<notCmd, opt, prog, run, gor, done, stdout, stderr, ctx, closed>>

\* What the stdout goroutine appends to t.stdout for one scanned line.
appendLine(b, line) == b \o <<NL>> \o line

\* What a stream goroutine does with its k-th line, in the order of the
\* loop body: log it, call the line callback, append it to the buffer.
lineSteps(log, cb, buf, k) ==
    (IF log THEN << <<"log", k>> >> ELSE <<>>)
    \o (IF cb THEN << <<"cb", k>> >> ELSE <<>>)
    \o (IF buf THEN << <<"buf", k>> >> ELSE <<>>)

\* The stdout goroutine scans one more line: logs it, calls onStdoutLine
\* and appends it to t.stdout, as configured.
ScanStdout ==
    /\ gor["stdout"].st = "run"
    /\ ~closed
    /\ gor["stdout"].n < proc.out
    /\ ~TooLong(prog.out[gor["stdout"].n + 1])
    /\ gor' = [gor EXCEPT !["stdout"].n = @ + 1,
                          !["stdout"].seen = @ \o
                              lineSteps(opt.stdoutLogLevel, opt.onStdoutLine,
                                        opt.bufferStdout, gor["stdout"].n + 1)]
    /\ stdout' = IF opt.bufferStdout
                 THEN appendLine(stdout, prog.out[gor["stdout"].n + 1])
                 ELSE stdout
    /\ UNCHANGED <<notCmd, opt, prog, run, proc, done, stderr, ctx, closed>>

\* The stderr goroutine scans one more line: logs it, calls onStderrLine
\* and appends it to t.stderr, as configured.
ScanStderr ==
    /\ gor["stderr"].st = "run"
    /\ ~closed
    /\ gor["stderr"].n < proc.err
    /\ ~TooLong(prog.err[gor["stderr"].n + 1])
    /\ gor' = [gor EXCEPT !["stderr"].n = @ + 1,
                          !["stderr"].seen = @ \o
                              lineSteps(opt.stderrLogLevel, opt.onStderrLine,
                                        opt.bufferStderr, gor["stderr"].n + 1)]
    /\ stderr' = IF opt.bufferStderr
                 THEN appendLine(stderr, prog.err[gor["stderr"].n + 1])
                 ELSE stderr
    /\ UNCHANGED <<notCmd, opt, prog, run, proc, done, stdout, ctx, closed>>

\* The lines the program has written on stream g.
Written(g) == IF g = "stdout" THEN proc.out ELSE proc.err

\* The k-th line the program writes on stream g.
Line(g, k) == IF g = "stdout" THEN prog.out[k] ELSE prog.err[k]

\* s.Scan() returns false on a line that does not fit the buffer of the
\* scanner: the loop ends with the pipe still open, s.Err() is not read.
ScanTooLong(g) ==
    /\ gor[g].st = "run"
    /\ ~closed
    /\ gor[g].n < Written(g)
    /\ TooLong(Line(g, gor[g].n + 1))
    /\ gor' = [gor EXCEPT ![g].st = "send"]
    /\ UNCHANGED <<notCmd, opt, prog, run, proc, done, stdout, stderr, ctx, closed>>

\* s.Scan() returns false: the program is gone and the pipe is drained, or
\* cmd.Wait() has closed the pipe.
ScanEnd(g) ==
    /\ gor[g].st = "run"
    /\ \/ closed
       \/ proc.st # "running" /\ gor[g].n = Written(g)
    /\ gor' = [gor EXCEPT ![g].st = "send"]
    /\ UNCHANGED <<notCmd, opt, prog, run, proc, done, stdout, stderr, ctx, closed>>

\* t.done <- "stdout" (or "stderr"): blocks while the channel is full.
SendDone(g) ==
    /\ gor[g].st = "send"
    /\ Len(done) < Len(goroutine(opt))
    /\ done' = Append(done, g)
    /\ gor' = [gor EXCEPT ![g].st = "end"]
    /\ UNCHANGED <<notCmd, opt, prog, run, proc, stdout, stderr, ctx, closed>>

\* cmd.Process.Kill(): ends a running process, nothing else.
Kill_none(p) == p

Kill(p) ==
    IF p.st = "running" THEN [p EXCEPT !.st = "zombie", !.end = "signal"] ELSE p

\* The "DeadlineExceeded" line of the ctx goroutine: given to onStderrLine,
\* and logged at the stderr log level, else at t.logLevel when a logger is
\* set.
deadlineLine_none(o) == <<>>

deadlineLine(o) ==
    (IF o.onStderrLine THEN << <<"cb", "DeadlineExceeded">> >> ELSE <<>>)
    \o (IF o.stderrLogLevel THEN << <<"log", "DeadlineExceeded">> >>
        ELSE IF o.log THEN << <<"logLevel", "DeadlineExceeded">> >>
        ELSE <<>>)

\* The ctx goroutine sees the deadline exceeded: it kills the process and
\* goes on to signal. The deadline cannot pass once cancel() was called.
\* ctx.hit records that the deadline came before the end of the process.
CtxDeadline ==
    /\ gor["ctx"].st = "run"
    /\ ~ctx.cancelled
    /\ ctx' = [ctx EXCEPT !.expired = TRUE, !.hit = (proc.st = "running")]
    /\ proc' = Kill(proc)
    /\ gor' = [gor EXCEPT !["ctx"].st = "send",
                          !["ctx"].seen = @ \o deadlineLine(opt)]
    /\ UNCHANGED <<notCmd, opt, prog, run, done, stdout, stderr, closed>>

\* The ctx goroutine sees the context canceled by Wait(): no kill.
CtxCanceled ==
    /\ gor["ctx"].st = "run"
    /\ ctx.cancelled
    /\ gor' = [gor EXCEPT !["ctx"].st = "send"]
    /\ UNCHANGED <<notCmd, opt, prog, run, proc, done, stdout, stderr, ctx, closed>>

\* The ctx goroutine sends one "ctx" per goroutine, blocking while the
\* channel is full.
CtxSend ==
    /\ gor["ctx"].st = "send"
    /\ Len(done) < Len(goroutine(opt))
    /\ done' = Append(done, "ctx")
    /\ gor' = [gor EXCEPT !["ctx"] =
                   IF gor["ctx"].n + 1 = Len(goroutine(opt))
                   THEN [@ EXCEPT !.st = "end", !.n = @ + 1]
                   ELSE [@ EXCEPT !.n = @ + 1]]
    /\ UNCHANGED <<notCmd, opt, prog, run, proc, stdout, stderr, ctx, closed>>

\* Wait(): the number of signals to receive before cmd.Wait().
waitCount_short(o) == Len(goroutine(o)) - 1

waitCount_none(o) == 0

waitCount(o) == Len(goroutine(o)) - (IF o.timeout THEN 1 ELSE 0)

\* Wait() receives one signal from t.done.
WaitRecv ==
    /\ run.pc = "wait"
    /\ run.i < waitCount(opt)
    /\ done # <<>>
    /\ done' = Tail(done)
    /\ run' = [run EXCEPT !.i = @ + 1]
    /\ UNCHANGED <<notCmd, opt, prog, proc, gor, stdout, stderr, ctx, closed>>

\* cmd.Wait(): nil when the process exited with code 0, else an error.
cmdWait(p, code) ==
    IF p.st = "none" THEN "ErrNotStarted"
    ELSE IF p.end = "exit" /\ code = 0 THEN NIL
    ELSE "ExitError"

\* Wait() after its receive loop: cmd.Wait() returns once the process has
\* exited, having closed the pipes; Wait() returns its error and the
\* deferred cancel() runs.
WaitCmd ==
    /\ run.pc = "wait"
    /\ run.i >= waitCount(opt)
    /\ proc.st \in {"none", "zombie"}
    /\ run' = [run EXCEPT !.pc = "done", !.ret = cmdWait(proc, prog.code),
                          !.waited = TRUE]
    /\ proc' = IF proc.st = "zombie" THEN [proc EXCEPT !.st = "reaped"] ELSE proc
    /\ closed' = (proc.st = "zombie")
    /\ ctx' = [ctx EXCEPT !.cancelled = opt.timeout]
    /\ UNCHANGED <<notCmd, opt, prog, gor, done, stdout, stderr>>

\* stripFistByte(): the buffer without its first byte.
stripFistByte(b) == IF Len(b) > 1 THEN Tail(b) ELSE b

\* Stdout() and Stderr()
Stdout == stripFistByte(stdout)

Stderr == stripFistByte(stderr)

NextCmd ==
    \/ RunStart
    \/ StartAgain
    \/ ProcWriteOut
    \/ ProcWriteErr
    \/ ProcExit
    \/ ScanStdout
    \/ ScanStderr
    \/ \E g \in {"stdout", "stderr"} : ScanTooLong(g)
    \/ \E g \in {"stdout", "stderr"} : ScanEnd(g)
    \/ \E g \in {"stdout", "stderr"} : SendDone(g)
    \/ CtxDeadline
    \/ CtxCanceled
    \/ CtxSend
    \/ WaitRecv
    \/ WaitCmd

\* --------------------------------------------------------- Base.SetKeywords

\* The keyword operations of the model: one that parses and applies, one
\* that parses and that config.Set refuses, one that does not parse.
KwSet == {"a=1", "b=x", "junk"}

\* keyop.Parse(kw): the operation, or the zero operation.
Parse(kw) ==
    IF kw = "a=1" THEN [Key |-> "a", Op |-> "=", Value |-> "1"]
    ELSE IF kw = "b=x" THEN [Key |-> "b", Op |-> "=", Value |-> "x"]
    ELSE [Key |-> "", Op |-> "", Value |-> ""]

IsZero(op) == op.Op = ""

\* t.config.Set(op): its error.
configSet(op) == IF op.Key = "b" THEN "ErrSet" ELSE NIL

\* if changes > 0 { return t.config.Commit() }
needCommit_always(changes) == TRUE

needCommit(changes) == changes > 0

IdleSet ==
    [kws |-> <<>>, commitErr |-> FALSE, pc |-> "loop", i |-> 1, changes |-> 0,
     applied |-> <<>>, commits |-> 0, ret |-> "none"]

InitSetIdle == setkw = IdleSet

InitSet ==
    \E l \in SeqUpTo(KwSet, MaxKws), e \in BOOLEAN :
        setkw = [IdleSet EXCEPT !.kws = l, !.commitErr = e]

\* One iteration of `for _, kw := range kws`.
SetLoop ==
    /\ setkw.pc = "loop"
    /\ setkw.i <= Len(setkw.kws)
    /\ LET kw == setkw.kws[setkw.i]
           op == Parse(kw)
       IN  setkw' =
             IF IsZero(op)
             THEN [setkw EXCEPT !.pc = "done", !.ret = <<"invalid set expression", kw>>]
             ELSE IF configSet(op) # NIL
             THEN [setkw EXCEPT !.pc = "done", !.ret = configSet(op)]
             ELSE [setkw EXCEPT !.applied = Append(@, op), !.changes = @ + 1,
                                !.i = @ + 1]
    /\ UNCHANGED notSet

\* After the loop: Commit() if there were changes, and return its error;
\* else return nil.
SetReturn ==
    /\ setkw.pc = "loop"
    /\ setkw.i > Len(setkw.kws)
    /\ setkw' =
         IF needCommit(setkw.changes)
         THEN [setkw EXCEPT !.pc = "done", !.commits = @ + 1,
                            !.ret = IF setkw.commitErr THEN "ErrCommit" ELSE NIL]
         ELSE [setkw EXCEPT !.pc = "done", !.ret = NIL]
    /\ UNCHANGED notSet

NextSet == SetLoop \/ SetReturn

\* ----------------------------------------------------------- raw disk driver

\* File modes: the type bits of the device file and its permission bits.
FileTypes == {"block", "char"}

Perms == {"0000", "0600", "0660"}

Modes == [type : FileTypes, perm : Perms]

\* currentMode & os.ModeType: the type bits alone.
ModeType(m) == [type |-> m.type, perm |-> "0000"]

\* os.Chmod(p, m): sets the permission bits of the file, not its type.
Chmod(file, m) == [type |-> file.type, perm |-> m.perm]

\* setMode(): its error, the mode of the file after it, and the modes its
\* rollback step gives to os.Chmod, if it registers one. stat is the result
\* of file.Mode(p), chmod that of os.Chmod.
setMode(perm, stat, chmod, cur) ==
    IF perm = NIL THEN [err |-> NIL, mode |-> cur, back |-> <<>>]
    ELSE IF stat # NIL THEN [err |-> "invalid perm", mode |-> cur, back |-> <<>>]
    ELSE IF cur.perm = perm THEN [err |-> NIL, mode |-> cur, back |-> <<>>]
    ELSE IF chmod # NIL THEN [err |-> chmod, mode |-> cur, back |-> <<>>]
    ELSE [err  |-> NIL,
          mode |-> Chmod(cur, [type |-> ModeType(cur).type, perm |-> perm]),
          back |-> <<ModeType(cur)>>]

\* The state of a source device for ra.Bind(): free (Bind succeeds), bound
\* already (raw.ErrExist), or failing with another error.
DevStates == {"free", "bound", "fail"}

IdleRaw ==
    [create  |-> FALSE,      \* t.CreateCharDevices
     capable |-> FALSE,      \* raw.IsCapable()
     devs    |-> <<>>,       \* t.devices(): the state of each source device
     perm    |-> NIL,        \* t.Perm
     stat    |-> NIL,        \* the error of file.Mode(p)
     mode0   |-> [type |-> "block", perm |-> "0000"],  \* the mode of the file before
     mode    |-> [type |-> "block", perm |-> "0000"],  \* the mode of the file
     pc      |-> "char",     \* position in Start()
     i       |-> 1,          \* loop index of startCharDevices
     binds   |-> {},         \* the devices bound by this Start()
     stack   |-> <<>>,       \* the rollback steps registered, in order
     undone  |-> <<>>,       \* the rollback steps run, in order
     charRet |-> "none",     \* what startCharDevices returned
     ret     |-> "none"]     \* what Start() returned

InitRawIdle == rawdev = IdleRaw

InitRaw ==
    \E c, k \in BOOLEAN, d \in SeqUpTo(DevStates, MaxDevs),
       p \in Perms \cup {NIL}, e \in {NIL, "ErrStat"}, m \in Modes :
        rawdev = [IdleRaw EXCEPT !.create = c, !.capable = k, !.devs = d,
                                 !.perm = p, !.stat = e, !.mode0 = m,
                                 !.mode = m]

\* startCharDevices() up to its loop.
CharStart ==
    /\ rawdev.pc = "char"
    /\ rawdev' =
         IF ~rawdev.create
         THEN [rawdev EXCEPT !.pc = "block", !.charRet = NIL]
         ELSE IF ~rawdev.capable
         THEN [rawdev EXCEPT !.pc = "done", !.charRet = "not raw capable",
                             !.ret = "not raw capable"]
         ELSE [rawdev EXCEPT !.pc = "bind", !.i = 1]
    /\ UNCHANGED notRaw

\* One iteration of the loop of startCharDevices(): ra.Bind() and the switch
\* on its error.
CharBind ==
    /\ rawdev.pc = "bind"
    /\ rawdev.i <= Len(rawdev.devs)
    /\ LET d == rawdev.devs[rawdev.i]
       IN  rawdev' =
             IF d = "bound"
             THEN [rawdev EXCEPT !.pc = "block", !.charRet = NIL]
             ELSE IF d = "fail"
             THEN [rawdev EXCEPT !.pc = "done", !.charRet = "ErrBind",
                                 !.ret = "ErrBind"]
             ELSE [rawdev EXCEPT !.binds = @ \cup {rawdev.i},
                                 !.stack = Append(@, <<"unbind", rawdev.i>>),
                                 !.i = @ + 1]
    /\ UNCHANGED notRaw

\* The loop of startCharDevices() is over: return nil.
CharReturn ==
    /\ rawdev.pc = "bind"
    /\ rawdev.i > Len(rawdev.devs)
    /\ rawdev' = [rawdev EXCEPT !.pc = "block", !.charRet = NIL]
    /\ UNCHANGED notRaw

\* startBlockDevices(): setMode() on the device file; Start() returns.
SetMode(chmod) ==
    /\ rawdev.pc = "block"
    /\ LET r == setMode(rawdev.perm, rawdev.stat, chmod, rawdev.mode)
       IN  rawdev' = [rawdev EXCEPT
                        !.mode = r.mode,
                        !.stack = IF r.back # <<>>
                                  THEN Append(@, <<"chmod", r.back[1]>>) ELSE @,
                        !.ret = r.err,
                        !.pc = "done"]
    /\ UNCHANGED notRaw

\* The action failed later on: the registered steps run, last first.
RawRollback ==
    /\ rawdev.pc = "done"
    /\ Len(rawdev.undone) < Len(rawdev.stack)
    /\ LET step == rawdev.stack[Len(rawdev.stack) - Len(rawdev.undone)]
       IN  rawdev' = [rawdev EXCEPT
                        !.undone = Append(@, step),
                        !.mode = IF step[1] = "chmod"
                                 THEN Chmod(@, step[2]) ELSE @,
                        !.binds = IF step[1] = "unbind"
                                  THEN @ \ {step[2]} ELSE @]
    /\ UNCHANGED notRaw

NextRaw ==
    \/ CharStart
    \/ CharBind
    \/ CharReturn
    \/ \E e \in {NIL, "ErrChmod"} : SetMode(e)
    \/ RawRollback

\* -------------------------------------------------------- forking app driver

\* t.Status(): evaluated by the check command of the resource, when it has
\* one.
Status(a) == IF ~a.check THEN "n/a" ELSE IF a.up THEN "up" ELSE "down"

\* if appStatus == status.Up { return nil }
alreadyUp_never(st) == FALSE

alreadyUp(st) == st = "up"

\* A call of Start(): the status it saw, whether it ran the start command,
\* and what it returned.
NoCall == [status |-> "none", ran |-> FALSE, ret |-> "none"]

IdleApp ==
    [startCmd |-> "empty",   \* t.StartCmd: "set", "empty", or "bad"
     timeout  |-> FALSE,     \* t.GetTimeout("start") is set
     check    |-> FALSE,     \* the resource has a check command
     up       |-> FALSE,     \* the application runs
     pc       |-> "idle",    \* position in Start()
     cur      |-> NoCall,    \* the call in progress
     calls    |-> <<>>,      \* the calls of Start() that returned
     launched |-> 0]         \* how many times the start command was run

InitAppIdle == appfork = IdleApp

InitApp ==
    \E c \in {"set", "empty", "bad"}, t, k, u \in BOOLEAN :
        appfork = [IdleApp EXCEPT !.startCmd = c, !.timeout = t, !.check = k,
                                  !.up = u]

InitDrvIdle == InitSetIdle /\ InitRawIdle /\ InitAppIdle

\* Start() is called, a first time and then again.
AppStart ==
    /\ appfork.pc = "idle"
    /\ Len(appfork.calls) < 2
    /\ appfork' = [appfork EXCEPT !.pc = "prepare", !.cur = NoCall]
    /\ UNCHANGED notApp

\* t.PrepareXcmd(t.StartCmd, "start"): its error is returned, and nil when
\* the command is empty.
AppPrepare ==
    /\ appfork.pc = "prepare"
    /\ appfork' =
         IF appfork.startCmd = "bad"
         THEN [appfork EXCEPT !.pc = "return", !.cur.ret = "ErrPrepare"]
         ELSE IF appfork.startCmd = "empty"
         THEN [appfork EXCEPT !.pc = "return", !.cur.ret = NIL]
         ELSE [appfork EXCEPT !.pc = "status"]
    /\ UNCHANGED notApp

\* appStatus := t.Status(): nil is returned when it is Up.
AppStatus ==
    /\ appfork.pc = "status"
    /\ LET st == Status(appfork)
       IN  appfork' =
             IF alreadyUp(st)
             THEN [appfork EXCEPT !.pc = "return", !.cur.status = st,
                                  !.cur.ret = NIL]
             ELSE [appfork EXCEPT !.pc = "run", !.cur.status = st]
    /\ UNCHANGED notApp

\* t.RunOutErr(cmd): the start command runs; its error is returned. how is
\* "ok", "fail", or "deadline" when the command runs under a timeout.
AppRun(how) ==
    /\ appfork.pc = "run"
    /\ how = "deadline" => appfork.timeout
    /\ appfork' = [appfork EXCEPT
                     !.pc = "return",
                     !.launched = @ + 1,
                     !.up = (@ \/ how = "ok"),
                     !.cur.ran = TRUE,
                     !.cur.ret = IF how = "ok" THEN NIL ELSE "ErrRun"]
    /\ UNCHANGED notApp

\* Start() returns.
AppReturn ==
    /\ appfork.pc = "return"
    /\ appfork' = [appfork EXCEPT !.pc = "idle",
                                  !.calls = Append(@, appfork.cur)]
    /\ UNCHANGED notApp

\* The application stops by itself.
AppDies ==
    /\ appfork.up
    /\ appfork' = [appfork EXCEPT !.up = FALSE]
    /\ UNCHANGED notApp

NextApp ==
    \/ AppStart
    \/ AppPrepare
    \/ AppStatus
    \/ \E how \in {"ok", "fail", "deadline"} : AppRun(how)
    \/ AppReturn
    \/ AppDies

\* ------------------------------------------------------------ specifications

InitSetSpec ==
    InitSet /\ InitSelIdle /\ InitStartIdle /\ InitBusIdle /\ InitCmdIdle
            /\ InitRawIdle /\ InitAppIdle

InitRawSpec ==
    InitRaw /\ InitSelIdle /\ InitStartIdle /\ InitBusIdle /\ InitCmdIdle
            /\ InitSetIdle /\ InitAppIdle

InitAppSpec ==
    InitApp /\ InitSelIdle /\ InitStartIdle /\ InitBusIdle /\ InitCmdIdle
            /\ InitSetIdle /\ InitRawIdle

SpecSet == InitSetSpec /\ [][NextSet]_vars

SpecRaw == InitRawSpec /\ [][NextRaw]_vars

SpecApp == InitAppSpec /\ [][NextApp]_vars

InitSelSpec == InitSel /\ InitStartIdle /\ InitBusIdle /\ InitCmdIdle /\ InitDrvIdle

InitStartSpec == InitStart /\ InitSelIdle /\ InitBusIdle /\ InitCmdIdle /\ InitDrvIdle

InitBusSpec == InitBusIdle /\ InitSelIdle /\ InitStartIdle /\ InitCmdIdle /\ InitDrvIdle

InitBusConcSpec == InitBusStarted /\ InitSelIdle /\ InitStartIdle /\ InitCmdIdle /\ InitDrvIdle

InitCmdSpec == InitCmd /\ InitSelIdle /\ InitStartIdle /\ InitBusIdle /\ InitDrvIdle

InitCmdLiveSpec == InitCmdLive /\ InitSelIdle /\ InitStartIdle /\ InitBusIdle /\ InitDrvIdle

SpecSel == InitSelSpec /\ [][NextSel]_vars

SpecStart == InitStartSpec /\ [][NextStart]_vars

\* The abort check under the Go scheduler: the goroutine of an invocation
\* and each of its abortWorker goroutines runs when it can.
AbortFairness ==
    \A p \in Invocations :
        /\ WF_vars(AbortSpawn(p) \/ AbortWait(p) \/ AbortCollect(p)
                     \/ AbortDecide(p))
        /\ \A k \in 1..MaxRes : WF_vars(\E a \in BOOLEAN : AbortWorker(p, k, a))

\* Start() on resources that register no rollback step.
NextStartLive ==
    \/ \E p \in Invocations : StartCall(p)
    \/ \E p \in Invocations : LockAcquire(p)
    \/ \E p \in Invocations : LockTimeout(p)
    \/ \E p \in Invocations : AbortSpawn(p)
    \/ \E p \in Invocations, k \in 1..MaxRes, a \in BOOLEAN : AbortWorker(p, k, a)
    \/ \E p \in Invocations : AbortWait(p)
    \/ \E p \in Invocations : AbortCollect(p)
    \/ \E p \in Invocations : AbortDecide(p)
    \/ \E p \in Invocations, f \in BOOLEAN : MasterStart(p, 0, f)
    \/ \E p \in Invocations : MasterReturn(p)
    \/ \E p \in Invocations : SlaveStart(p)
    \/ \E p \in Invocations : FuncReturn(p)
    \/ \E p \in Invocations : RollbackEnd(p)
    \/ \E p \in Invocations : Unlock(p)

SpecStartLive == InitStartSpec /\ [][NextStartLive]_vars /\ AbortFairness

SpecBus == InitBusSpec /\ [][NextBus]_vars

SpecBusConc == InitBusConcSpec /\ [][NextBusConc]_vars

SpecCmd == InitCmdSpec /\ [][NextCmd]_vars

\* The helper goroutines under the Go scheduler: each one runs when it can,
\* and the timer of the context fires unless it is cancelled first.
HelperFairness ==
    /\ WF_vars(ScanStdout \/ ScanTooLong("stdout") \/ ScanEnd("stdout")
                 \/ SendDone("stdout"))
    /\ WF_vars(ScanStderr \/ ScanTooLong("stderr") \/ ScanEnd("stderr")
                 \/ SendDone("stderr"))
    /\ WF_vars(CtxDeadline \/ CtxCanceled \/ CtxSend)

SpecCmdLive == InitCmdLiveSpec /\ [][NextCmd]_vars /\ HelperFairness

\* -------------------------------------------------------------------- claims

\* How many times x occurs in the sequence l.
Count(l, x) == Cardinality({k \in 1..Len(l) : l[k] = x})

Reverse(l) == [k \in 1..Len(l) |-> l[Len(l) + 1 - k]]

IsPrefix(l, m) == Len(l) <= Len(m) /\ l = SubSeq(m, 1, Len(l))

\* The resolved paths whose object supports the action.
SupportsAction(path) ==
    NewObject(path) # NIL /\ MethodByName(NewObject(path))

\* The dispatched tasks whose action method crashed, and those that returned.
Crashed == {i \in 1..Len(paths) : task[i].out = "panic"}

Returned == {i \in 1..Len(paths) : task[i].out \in RetVals}

\* C1: Selection.Action over N resolved objects that support the action, M
\* of which crash in their action method, returns exactly N results: M carry
\* a crash payload, and the other N-M are the values the methods returned,
\* in whatever order the tasks completed.
C1_OneResultPerObject ==
    (selPc = "done" /\ \A i \in 1..Len(paths) : SupportsAction(paths[i])) =>
        /\ Len(results) = Len(paths)
        /\ Cardinality({k \in 1..Len(results) : results[k].Panic # NIL})
             = Cardinality(Crashed)
        /\ \A i \in Returned :
             LET r == [Path |-> paths[i], Ret |-> task[i].out, Panic |-> NIL]
             IN  Count(results, r)
                   = Cardinality({j \in Returned : /\ paths[j] = paths[i]
                                                   /\ task[j].out = task[i].out})

\* Three objects, the first one crashed, and the results came back in an
\* order that is not the order of the paths.
C1_Witness ==
    /\ selPc = "done"
    /\ Len(paths) = 3
    /\ \A i \in 1..3 : SupportsAction(paths[i])
    /\ Crashed = {1}
    /\ Len(results) = 3
    /\ results[3].Panic # NIL
    /\ results[1].Panic = NIL

\* C2: if the Abort of any resource reports true during the abort check,
\* the Start of no resource is invoked for that action, and the action ends
\* with the "abort start" error.
C2_AbortVetoNoStart ==
    \A p \in Invocations :
        inv[p].vetoed # {} =>
            /\ inv[p].log = <<>>
            /\ inv[p].pc \notin {"master", "slave"}
            /\ inv[p].pc = "done" => inv[p].result = ErrAbort

\* One resource vetoed, another voted no veto, and the action is over.
C2_Witness ==
    \E p \in Invocations :
        /\ inv[p].pc = "done"
        /\ Cardinality(inv[p].vetoed) = 1
        /\ NRes = 2
        /\ \A r \in Range(listResources) : Aborter(r)
        /\ inv[p].result = ErrAbort

\* C3: the Apply phase starts the resources in exactly the caller-supplied
\* order (the Starts invoked are always a prefix of the list), and once the
\* Start of resource i has returned an error no later resource is started:
\* the failed resource stays the last one invoked.
C3_ApplyInOrderStopOnFailure ==
    \A p \in Invocations :
        /\ IsPrefix(inv[p].log, listResources)
        /\ inv[p].failed # NIL =>
             /\ inv[p].log # <<>>
             /\ inv[p].log[Len(inv[p].log)] = inv[p].failed

\* The first of two resources failed and the action is over.
C3_Witness ==
    \E p \in Invocations :
        /\ inv[p].pc = "done"
        /\ NRes = 2
        /\ inv[p].failed = listResources[1]
        /\ inv[p].log = <<listResources[1]>>

\* The rollback steps registered by the resources before the failed one.
BeforeFailed(p, l) ==
    LET keep(s) == s[1] # inv[p].failed
    IN  SelectSeq(l, keep)

\* C4: if resource i fails during Apply, every rollback step registered by
\* the resources before i is executed, in the exact reverse order of the
\* registrations.
C4_RollbackReverseOrder ==
    \A p \in Invocations :
        /\ IsPrefix(inv[p].rolled, Reverse(inv[p].stack))
        /\ (inv[p].failed # NIL /\ inv[p].pc \in {"unlock", "done"}) =>
             BeforeFailed(p, inv[p].rolled)
               = Reverse(BeforeFailed(p, inv[p].stack))

\* The first resource registered two steps, the second failed, and the
\* rollback is over.
C4_Witness ==
    \E p \in Invocations :
        /\ inv[p].pc = "done"
        /\ NRes = 2
        /\ inv[p].failed = listResources[2]
        /\ Len(BeforeFailed(p, inv[p].stack)) = 2
        /\ Len(inv[p].rolled) >= 2

C6_OriginalErrorReturned ==
    \A p \in Invocations :
        /\ (inv[p].pc = "done" /\ inv[p].failed # NIL) =>
             inv[p].result = StartError(inv[p].failed)
        /\ \A s \in Range(inv[p].stack) : Count(inv[p].rolled, s) <= 1

\* A resource failed, a rollback step failed too, and the action is over.
C6_Witness ==
    \E p \in Invocations :
        /\ inv[p].pc = "done"
        /\ inv[p].failed # NIL
        /\ inv[p].rbfail
        /\ inv[p].result = StartError(inv[p].failed)

\* An invocation is in its abort check, its apply phase or its rollback.
InAction(p) ==
    \/ inv[p].pc \in {"abort", "collect", "master", "slave", "return", "rollback"}
    \/ \E k \in 1..MaxRes : inv[p].worker[k] = "run"

\* C7: the abort-check and apply phases of two Start invocations on the
\* same object never overlap: an invocation holds the object's action lock
\* from before its abort check until after its last resource step.
C7_OneActionAtATime ==
    \A p, o \in Invocations :
        /\ InAction(p) => lock = p
        /\ (p # o /\ InAction(p)) => ~InAction(o)

\* One invocation is starting resources while the other waits for the lock.
C7_Witness ==
    \E p, o \in Invocations :
        /\ inv[p].pc = "master" /\ inv[p].log # <<>>
        /\ inv[o].pc = "lock"

\* C8: an invocation that cannot acquire the action lock within the timeout
\* returns the "locked" error, and invokes neither the Abort nor the Start
\* of any resource.
C8_LockedNoMutation ==
    \A p \in Invocations :
        inv[p].timeout =>
            /\ inv[p].pc = "done"
            /\ inv[p].result = ErrLocked
            /\ inv[p].log = <<>>
            /\ inv[p].stack = <<>>
            /\ \A k \in 1..MaxRes : inv[p].worker[k] = "none"

\* One invocation timed out on the lock while the other was starting
\* resources.
C8_Witness ==
    \E p, o \in Invocations :
        /\ inv[p].timeout
        /\ inv[o].pc = "master" /\ inv[o].log # <<>>

\* C9: Start() on a started bus fails fast with ErrorStarted, and the bus
\* stays as it was.
C9_StartTwiceRefused ==
    (busOut.op = "Start" /\ busOut.was) =>
        /\ busOut.panic = "ErrorStarted"
        /\ busStarted

\* A second Start() was refused on a bus that holds a status.
C9_Witness ==
    /\ busOut.op = "Start"
    /\ busOut.was
    /\ busOut.panic = "ErrorStarted"
    /\ busData # EmptyData

\* C10: Get and Post on a bus that is not started, before the first Start()
\* or after Stop(), fail fast with ErrorNeedStart: Get returns no status and
\* Post stores nothing.
C10_NeedStart ==
    (busOut.op \in {"Get", "Post"} /\ ~busOut.was) =>
        /\ busOut.panic = "ErrorNeedStart"
        /\ busOut.val = NIL
        /\ busData = EmptyData

\* A Post was refused after a Stop().
C10_Witness ==
    /\ busOut.op = "Post"
    /\ ~busOut.was
    /\ busOut.after
    /\ busOut.panic = "ErrorNeedStart"

\* C11: on a started bus, Get(path, rid) returns the status of the most
\* recent Post to that key: the last write wins.
C11_LastWriteWins ==
    (busOut.op = "Get" /\ busOut.was /\ busOut.key \in DOMAIN busPosted) =>
        busOut.val = busPosted[busOut.key]

\* A Get read Down from a key that was posted with another status first.
C11_Witness ==
    /\ busOut.op = "Get"
    /\ busOut.was
    /\ busOut.key \in busRewritten
    /\ busOut.val = "down"

\* C12: on a started bus, Get of a key that was never posted returns Undef,
\* for an unknown resource id of a known object as for an object without
\* any entry.
C12_UnknownKeyUndef ==
    (busOut.op = "Get" /\ busOut.was /\ busOut.key \notin DOMAIN busPosted) =>
        busOut.val = Undef

\* A Get of an unknown resource id of an object that has a posted status.
C12_Witness ==
    /\ busOut.op = "Get"
    /\ busOut.was
    /\ busOut.key \notin DOMAIN busPosted
    /\ \E k \in DOMAIN busPosted : k[1] = busOut.key[1]
    /\ busOut.val = Undef

\* C13: a Post to one key leaves the status of every other key unchanged.
C13_PostFrame ==
    [][busOut'.op = "Post" =>
           \A k \in BusPaths \X BusRids :
               k # busOut'.key =>
                   /\ (k \in DOMAIN busData') = (k \in DOMAIN busData)
                   /\ k \in DOMAIN busData => busData'[k] = busData[k]]_vars

\* app#1 was posted Down and app#2 Up on the same object, and both are held.
C13_Witness ==
    /\ busOut.op = "Post"
    /\ busOut.key = <<"root/svc/foo", "app#2">>
    /\ Lookup(busData, <<"root/svc/foo", "app#1">>) = "down"
    /\ Lookup(busData, <<"root/svc/foo", "app#2">>) = "up"

\* The callers that hold the bus lock.
InCritical == {c \in BusCallers : busCall[c].pc \in {"load", "store", "read", "unlock"}}

\* C14: under every interleaving of concurrent Post and Get calls on a
\* started bus, one call at a time works on the mapping, no Post is lost
\* (the mapping holds the latest status stored for every key), and a Get
\* returns Undef or a status that was posted for that key.
C14_ConcurrentPostSafe ==
    /\ Cardinality(InCritical) <= 1
    /\ busData = busPosted
    /\ \A c \in BusCallers :
           (busCall[c].op = "Get" /\ busCall[c].pc \in {"unlock", "idle"}) =>
               busCall[c].val \in {Undef} \cup busEver[busCall[c].key]

\* A Post is half way through its upsert while another Post, of another
\* key, waits for the lock.
C14_Witness ==
    \E c, d \in BusCallers :
        /\ busCall[c].pc = "store"
        /\ busCall[d].pc = "lock"
        /\ busCall[d].op = "Post"
        /\ busCall[d].key # busCall[c].key
        /\ busData # EmptyData

\* C15: Stop() on a bus that was never started does not fail, and the bus
\* stays stopped.
C15_StopNeverStarted ==
    (busOut.op = "Stop" /\ ~busOut.was) =>
        /\ busOut.panic = NIL
        /\ ~busStarted

\* A Stop() returned on a bus that no Start() ever started.
C15_Witness ==
    /\ busOut.op = "Stop"
    /\ ~busOut.was
    /\ ~busOut.after
    /\ busOut.panic = NIL
    /\ ~busStopped

\* The lines l joined by newlines.
RECURSIVE Join(_)
Join(l) ==
    IF l = <<>> THEN <<>>
    ELSE IF Len(l) = 1 THEN l[1]
    ELSE l[1] \o <<NL>> \o Join(Tail(l))

\* No stream goroutine is still scanning its pipe.
StreamsFinished == \A g \in {"stdout", "stderr"} : gor[g].st # "run"

\* C16: with buffered stdout, Stdout() after Run() equals the lines the
\* subprocess wrote on its standard output, in order, joined by newlines,
\* the sentinel byte stripped, whatever other helper goroutines run. Stated
\* for the runs whose deadline, if any, did not expire.
C16_StdoutEqualsLines ==
    (run.pc = "done" /\ opt.bufferStdout /\ ~ctx.expired) =>
        Stdout = Join(SubSeq(prog.out, 1, proc.out))

\* C17: when the deadline comes before the end of the subprocess, Run()
\* returns a non-nil error and the subprocess is gone once Wait() returned.
C17_DeadlineKills ==
    (run.pc = "done" /\ ctx.hit) =>
        /\ run.ret # NIL
        /\ proc.st = "reaped"

\* Run() returned the error of a subprocess killed before it wrote all its
\* lines.
C17_Witness ==
    /\ run.pc = "done"
    /\ ctx.hit
    /\ run.ret = "ExitError"
    /\ proc.end = "signal"
    /\ proc.out < Len(prog.out)

\* C18 as stated: Wait() returns only after the process has exited and
\* every started stream goroutine has finished reading, with or without a
\* deadline.
C18_WaitAfterStreams ==
    (run.pc = "done" /\ run.start = NIL) =>
        /\ proc.st = "reaped"
        /\ StreamsFinished

\* C18 amended: Wait() returns only after the process has exited, and,
\* unless the deadline expired before Wait() returned, only after every
\* started stream goroutine has finished reading.
C18_WaitAfterStreamsUnlessExpired ==
    (run.pc = "done" /\ run.start = NIL) =>
        /\ proc.st = "reaped"
        /\ ~ctx.expired => StreamsFinished

\* Wait() returned under a deadline that did not expire, after both stream
\* goroutines buffered what the subprocess wrote.
C18_Witness ==
    /\ run.pc = "done"
    /\ run.start = NIL
    /\ opt.timeout
    /\ ~ctx.expired
    /\ gor["stdout"].st = "end"
    /\ gor["stderr"].st = "end"
    /\ Len(stdout) > 1
    /\ Len(stderr) > 1

\* C19: when a user or group is requested and its resolution fails, Start()
\* returns that error and launches no subprocess; a command with a
\* requested user never runs under the invoking identity.
C19_CredentialFailureStopsStart ==
    /\ (opt.valid /\ opt.user = "unknown" /\ run.pc # "new") =>
           /\ run.start = "ErrCredential"
           /\ proc.n = 0
    /\ (opt.user # "" /\ proc.n > 0) => proc.cred = opt.user

\* C20: Run() is Start() followed by Wait(): the error of a failed Start()
\* is returned without waiting; else Run() returns nil on exit code 0 and
\* an error otherwise, and the subprocess is launched once.
C20_RunIsStartThenWait ==
    /\ run.start \notin {"none", NIL} =>
           /\ run.pc = "done"
           /\ run.ret = run.start
           /\ ~run.waited
           /\ run.i = 0
    /\ (run.pc = "done" /\ run.start = NIL) =>
           /\ run.waited
           /\ (run.ret = NIL) = (proc.end = "exit" /\ prog.code = 0)
    /\ proc.n <= 1

\* Run() returned the error of a subprocess that exited with code 1.
C20_Witness ==
    /\ run.pc = "done"
    /\ run.start = NIL
    /\ run.waited
    /\ proc.end = "exit"
    /\ prog.code = 1
    /\ run.ret = "ExitError"

\* What the ctx goroutine reported when it saw the deadline exceeded.
Reported(chan) == Count(gor["ctx"].seen, <<chan, "DeadlineExceeded">>)

Stripped(b) == IF b = <<>> THEN <<>> ELSE Tail(b)

\* C22: Stdout() and Stderr() return the captured buffer without its leading
\* sentinel byte, whatever was captured, and are empty when the stream is
\* not buffered or nothing was captured.
C22_SentinelStripped ==
    /\ Stdout = Stripped(stdout)
    /\ Stderr = Stripped(stderr)
    /\ ~opt.bufferStdout => Stdout = <<>>
    /\ ~opt.bufferStderr => Stderr = <<>>

\* The steps configured for stream g, and their rank in the loop body.
Configured(g) ==
    IF g = "stdout"
    THEN {c \in {"log", "cb", "buf"} :
             \/ c = "log" /\ opt.stdoutLogLevel
             \/ c = "cb" /\ opt.onStdoutLine
             \/ c = "buf" /\ opt.bufferStdout}
    ELSE {c \in {"log", "cb", "buf"} :
             \/ c = "log" /\ opt.stderrLogLevel
             \/ c = "cb" /\ opt.onStderrLine
             \/ c = "buf" /\ opt.bufferStderr}

Rank(c) == IF c = "log" THEN 1 ELSE IF c = "cb" THEN 2 ELSE 3

\* Each line read so far went once through every configured step, the lines
\* in stream order and the steps of a line in the order log, callback, buffer.
InOrder(g) ==
    LET l == gor[g].seen
    IN  /\ \A c \in Configured(g), k \in 1..gor[g].n : Count(l, <<c, k>>) = 1
        /\ Len(l) = gor[g].n * Cardinality(Configured(g))
        /\ \A i, j \in 1..Len(l) :
               i < j => \/ l[i][2] < l[j][2]
                        \/ l[i][2] = l[j][2] /\ Rank(l[i][1]) < Rank(l[j][1])

\* The goroutine of stream g stopped reading with the pipe still open only
\* after the last line the program wrote.
NoDrop(g) ==
    (gor[g].st \in {"send", "end"} /\ ~closed) => gor[g].n = Written(g)

\* C23: for each captured stream, every line the subprocess writes is
\* processed exactly once and in stream order, its configured steps in the
\* order log, callback, buffer, and no line is dropped before the stream
\* closes.
C23_LinesInOrderNoneDropped ==
    \A g \in {"stdout", "stderr"} :
        gor[g].st # "none" => InOrder(g) /\ NoDrop(g)

C25_NotApplicableSkipped ==
    selPc = "done" =>
        /\ \A k \in 1..Len(results) : SupportsAction(results[k].Path)
        /\ Len(results)
             = Cardinality({i \in 1..Len(paths) : SupportsAction(paths[i])})

\* C26: when the external resolution of the selector fails, the selection
\* expands to the empty set: Action dispatches no task and returns an empty
\* result list, and no error is raised.
C26_ResolutionFailureIsEmpty ==
    selApi = "fail" =>
        /\ paths = <<>>
        /\ started = 0
        /\ \A i \in 1..MaxPaths : task[i] = NoTask
        /\ q = <<>>
        /\ results = <<>>

\* The resolution of a selector that names three objects failed, and Action
\* returned.
C26_Witness ==
    /\ selApi = "fail"
    /\ Len(selReply) = 3
    /\ \A i \in 1..3 : SupportsAction(selReply[i])
    /\ selPc = "done"
    /\ results = <<>>

\* The tasks whose result is r: the task ran on the path of r, and either
\* crashed and r carries a payload and no returned value, or returned the
\* value r carries and r has no payload.
TasksOf(r) ==
    {i \in 1..Len(paths) :
        /\ paths[i] = r.Path
        /\ \/ task[i].out = "panic" /\ r.Panic # NIL /\ r.Ret = NIL
           \/ task[i].out \in RetVals /\ r.Ret = task[i].out /\ r.Panic = NIL}

\* C27: the result of an object whose method crashed carries the path of
\* that object and a non-nil panic payload, and no value of a normal return;
\* the result of an object whose method returned is the value it returned,
\* without a panic payload.
C27_ResultShape ==
    /\ \A k \in 1..Len(results) : TasksOf(results[k]) # {}
    /\ selPc = "done" =>
           \A i \in Crashed \cup Returned :
               \E k \in 1..Len(results) : i \in TasksOf(results[k])

\* svc1 returned an error value and svc2 crashed: one result of each shape.
C27_Witness ==
    /\ selPc = "done"
    /\ paths = <<"svc1", "svc2">>
    /\ Range(results) = {[Path |-> "svc1", Ret |-> "err", Panic |-> NIL],
                         [Path |-> "svc2", Ret |-> NIL, Panic |-> "panic"]}

\* C28: Selection.Action invokes the action exactly once on every resolved
\* object that supports it: each such object has its one task as soon as the
\* dispatch loop has passed it, and the task has made its call by the time
\* Action returns, whether or not the action of a sibling returned an error
\* or crashed.
C28_EveryObjectInvokedOnce ==
    /\ \A i \in 1..Len(paths) :
           (SupportsAction(paths[i]) /\ (selPc # "loop" \/ i < selI)) =>
               task[i].st # "none"
    /\ started = Cardinality({i \in 1..MaxPaths : task[i].st # "none"})
    /\ selPc = "done" =>
           \A i \in 1..Len(paths) :
               SupportsAction(paths[i]) =>
                   task[i].st = "exit" /\ task[i].out \in RetVals \cup {"panic"}

\* The first object crashed and the second returned an error before the
\* third was dispatched; the third was invoked all the same.
C28_Witness ==
    /\ selPc = "done"
    /\ Len(paths) = 3
    /\ \A i \in 1..3 : SupportsAction(paths[i])
    /\ task[1].out = "panic"
    /\ task[2].out = "err"
    /\ task[3].out = "ok"
    /\ results[1].Path = paths[1]
    /\ results[1].Panic # NIL

\* C29: a resource without the Abort capability votes "no veto": when no
\* resource that has Abort reported true, every vote is false, the abort
\* check passes, and the action goes on to start the resources.
C29_NoAbortIsNoVeto ==
    \A p \in Invocations :
        inv[p].vetoed = {} =>
            /\ \A k \in 1..Len(inv[p].q) : ~inv[p].q[k]
            /\ ~inv[p].ret
            /\ inv[p].err # ErrAbort
            /\ inv[p].result # ErrAbort
            /\ (inv[p].pc = "done" /\ ~inv[p].timeout) => inv[p].log # <<>>

\* An object with a resource that lacks Abort and one whose Abort reported
\* false: both were started and the action succeeded.
C29_Witness ==
    \E p \in Invocations :
        /\ inv[p].pc = "done"
        /\ NRes = 2
        /\ \E k \in 1..2 : ~Aborter(listResources[k])
        /\ \E k \in 1..2 : Aborter(listResources[k])
        /\ inv[p].vetoed = {}
        /\ inv[p].log = listResources
        /\ inv[p].result = ErrNil

\* The abortWorker goroutines of p in state st.
Workers(p, st) == {k \in 1..NRes : inv[p].worker[k] = st}

\* One vote per worker that has reported, room in the channel for every
\* worker still to report, and nothing after the check until every vote is
\* read.
VotesAccounted(p) ==
    /\ Len(inv[p].q) + Cardinality(Workers(p, "run")) <= NRes
    /\ inv[p].pc = "abort" =>
           /\ Len(inv[p].q) = Cardinality(Workers(p, "done"))
           /\ inv[p].wg = Cardinality(Workers(p, "run"))
    /\ inv[p].pc = "collect" =>
           /\ Workers(p, "done") = 1..NRes
           /\ Len(inv[p].q) + inv[p].i = NRes
    /\ (inv[p].pc \notin {"idle", "lock", "abort", "collect"}
          /\ ~inv[p].timeout) =>
           /\ Workers(p, "done") = 1..NRes
           /\ inv[p].q = <<>>
    /\ inv[p].log # <<>> => Workers(p, "done") = 1..NRes

C31_SlaveOnlyAfterMaster ==
    \A p \in Invocations :
        /\ (inv[p].pc = "slave" \/ inv[p].slave) =>
               /\ inv[p].vetoed = {}
               /\ ~inv[p].ret
               /\ inv[p].failed = NIL
               /\ inv[p].log = listResources
        /\ (inv[p].failed # NIL \/ inv[p].vetoed # {}) =>
               (inv[p].pc # "slave" /\ ~inv[p].slave)

\* slaveStart ran after both resources were started, and the action
\* succeeded.
C31_Witness ==
    \E p \in Invocations :
        /\ inv[p].pc = "done"
        /\ inv[p].slave
        /\ NRes = 2
        /\ inv[p].log = listResources
        /\ inv[p].result = ErrNil

\* The stream goroutines Start() registered, and the signals sent so far on
\* t.done.
StreamTasks == {g \in {"stdout", "stderr"} : Configured(g) # {}}

SignalsSent ==
    Cardinality({g \in {"stdout", "stderr"} : gor[g].st = "end"})
    + gor["ctx"].n

\* C32: Wait() receives exactly one signal per registered stream goroutine
\* (the number of helper goroutines, less one when there is a ctx goroutine)
\* before it calls cmd.Wait(): never more, and cmd.Wait() is not called
\* with fewer received. Every signal received was sent.
C32_WaitCountsStreamTasks ==
    /\ run.i <= Cardinality(StreamTasks)
    /\ run.waited => run.i = Cardinality(StreamTasks)
    /\ run.start = NIL => run.i + Len(done) = SignalsSent

\* Wait() called cmd.Wait() after two signals, with two stream goroutines
\* and a ctx goroutine registered.
C32_Witness ==
    /\ run.waited
    /\ opt.timeout
    /\ StreamTasks = {"stdout", "stderr"}
    /\ run.i = 2
    /\ run.reg = 3

\* The dispatched tasks whose goroutine has ended.
Exited == {i \in 1..Len(paths) : task[i].st = "exit"}

\* C33: no per-object task blocks on the result channel, each task that has
\* ended sent exactly one result, normal or crash, and Action is not left
\* waiting for a result once every dispatched task has returned or crashed.
C33_EveryTaskSendsOneResult ==
    /\ \A i \in 1..Len(paths) : task[i].st = "send" => Len(q) < Len(paths)
    /\ Cardinality(Exited) = Len(q) + Len(results)
    /\ (selPc = "collect" /\ selI < started
          /\ \A i \in 1..Len(paths) : task[i].st \in {"none", "exit"}) =>
           q # <<>>

\* The helper goroutines that were started and have not ended.
Helpers == {g \in DOMAIN gor : gor[g].st \notin {"none", "end"}}

\* The signals the helper goroutines have still to send on t.done.
PendingSignals ==
    Cardinality({g \in {"stdout", "stderr"} : gor[g].st \in {"run", "send"}})
    + (IF gor["ctx"].st \in {"run", "send"} THEN run.reg - gor["ctx"].n ELSE 0)

\* C34: no helper goroutine stays blocked on t.done: after Wait() the channel
\* has room for every signal still to be sent, and once Wait() has
\* returned, the stream goroutines, whose pipes cmd.Wait() closed, and the
\* ctx goroutine all come to their end.
C34_HelpersTerminate ==
    /\ [](run.waited => PendingSignals <= run.reg - Len(done))
    /\ run.waited ~> (Helpers = {})

\* Wait() returned after the deadline expired, while a stream goroutine and
\* the ctx goroutine still had their signals to send.
C34_Witness ==
    /\ run.waited
    /\ ctx.expired
    /\ gor["ctx"].st = "send"
    /\ gor["ctx"].n >= 1
    /\ gor["stdout"].st \in {"run", "send"}

\* C35: when the process exits on its own before the deadline, Kill() is
\* not called on it and no "DeadlineExceeded" line is emitted: both happen
\* only in runs where the process was still running at expiry; and Wait()
\* returns the result of a process that exited by itself.
C35_NoKillAfterExit ==
    /\ ctx.expired => ctx.hit
    /\ gor["ctx"].seen # <<>> => ctx.hit
    /\ (run.pc = "done" /\ run.start = NIL /\ proc.end = "exit") =>
           run.ret = (IF prog.code = 0 THEN NIL ELSE "ExitError")

\* The operations of the list all parse and apply.
AllApply(kws) ==
    \A k \in 1..Len(kws) : ~IsZero(Parse(kws[k])) /\ configSet(Parse(kws[k])) = NIL

\* The first operation of the list that does not parse or does not apply.
FirstBad(kws) ==
    CHOOSE k \in 1..Len(kws) :
        /\ IsZero(Parse(kws[k])) \/ configSet(Parse(kws[k])) # NIL
        /\ AllApply(SubSeq(kws, 1, k - 1))

\* C36: SetKeywords calls Commit, once, if and only if the list holds at
\* least one operation and every operation parses and applies; on the first
\* operation that does not, it returns that error, having applied only the
\* operations before it, without Commit; with an empty list it returns nil
\* without Commit.
C36_CommitIffAllApplied ==
    /\ setkw.commits <= 1
    /\ setkw.pc # "done" => setkw.commits = 0
    /\ setkw.pc = "done" =>
           LET kws == setkw.kws
           IN  /\ setkw.commits = 1 <=> (Len(kws) >= 1 /\ AllApply(kws))
               /\ kws = <<>> => setkw.ret = NIL
               /\ setkw.commits = 1 =>
                      setkw.ret = (IF setkw.commitErr THEN "ErrCommit" ELSE NIL)
               /\ ~AllApply(kws) =>
                      LET k == FirstBad(kws)
                      IN  /\ setkw.ret # NIL
                          /\ setkw.ret = (IF IsZero(Parse(kws[k]))
                                          THEN <<"invalid set expression", kws[k]>>
                                          ELSE configSet(Parse(kws[k])))
                          /\ Len(setkw.applied) = k - 1

\* Two operations were applied and the third did not parse: the error is
\* returned and nothing is committed.
C36_Witness ==
    /\ setkw.pc = "done"
    /\ setkw.kws = <<"a=1", "a=1", "junk">>
    /\ Len(setkw.applied) = 2
    /\ setkw.commits = 0
    /\ setkw.ret = <<"invalid set expression", "junk">>

\* C37: the rollback step registered by setMode is a true compensation: once
\* it has run, the device file has the mode it had before setMode, type and
\* permission bits.
C37_SetModeRollbackRestores ==
    (\E k \in 1..Len(rawdev.undone) : rawdev.undone[k][1] = "chmod") =>
        rawdev.mode = rawdev.mode0

\* The devices the loop of startCharDevices has to bind.
Devs == 1..Len(rawdev.devs)

\* C38: after startCharDevices returned nil, every configured device is
\* either bound by it, with one unbind rollback step registered, or was
\* bound already: a device bound already does not stop the binding of the
\* devices after it.
C38_EveryDeviceBound ==
    (rawdev.pc = "block" /\ rawdev.create /\ rawdev.capable) =>
        \A k \in Devs :
            \/ rawdev.devs[k] = "bound" /\ k \notin rawdev.binds
            \/ /\ rawdev.devs[k] = "free"
               /\ k \in rawdev.binds
               /\ Count(rawdev.stack, <<"unbind", k>>) = 1

\* The calls of Start() that found nothing to do: the status was Up, or the
\* start command is empty.
NothingToDo(c) == c.status = "up" \/ appfork.startCmd = "empty"

\* C39 as stated: a Start() that finds the status Up, or an empty start
\* command, returns nil without running a command, and a Start() repeated
\* after a successful Start() does not run the start command again.
C39_StartIdempotent ==
    /\ \A k \in 1..Len(appfork.calls) :
           NothingToDo(appfork.calls[k]) =>
               ~appfork.calls[k].ran /\ appfork.calls[k].ret = NIL
    /\ (Len(appfork.calls) = 2 /\ appfork.calls[1].ran
          /\ appfork.calls[1].ret = NIL) => ~appfork.calls[2].ran

\* C39 amended: a Start() that finds the status Up, or an empty start
\* command, returns nil without running a command; a Start() repeated after
\* a successful Start() does not run the start command again when Status()
\* reports Up at that time; the start command runs only in a Start() that
\* found a status other than Up.
C39_StartIdempotentWhenUp ==
    /\ \A k \in 1..Len(appfork.calls) :
           LET c == appfork.calls[k]
           IN  /\ NothingToDo(c) => ~c.ran /\ c.ret = NIL
               /\ c.ran => c.status \in {"down", "n/a"}
    /\ (Len(appfork.calls) = 2 /\ appfork.calls[1].ran
          /\ appfork.calls[1].ret = NIL /\ appfork.calls[2].status = "up") =>
           ~appfork.calls[2].ran /\ appfork.launched = 1
    /\ appfork.launched
         = Cardinality({k \in 1..Len(appfork.calls) : appfork.calls[k].ran})
           + (IF appfork.cur.ran /\ appfork.pc = "return" THEN 1 ELSE 0)

\* A first Start() ran the start command, which succeeded; the second found
\* the status Up and returned nil without running it.
C39_Witness ==
    /\ Len(appfork.calls) = 2
    /\ appfork.calls[1] = [status |-> "down", ran |-> TRUE, ret |-> NIL]
    /\ appfork.calls[2] = [status |-> "up", ran |-> FALSE, ret |-> NIL]
    /\ appfork.launched = 1

====
